---- MODULE Spec2Model ----
(***************************************************************************)
(* Model of streamlit_app.py: the site loader, the contaminant loader, the *)
(* filter, the two map renderers, the trend renderer and one run of app(). *)
(* Tables are sequences of rows; a row is a record whose fields are the    *)
(* columns of the CSV file plus idx, the row's index label.                *)
(***************************************************************************)
EXTENDS Integers, Sequences, FiniteSets, TLC

VARIABLES
    pc,              \* position of the run
    site_file,       \* the uploaded site CSV (text cells), or NoSiteFile
    sites,           \* result of load_and_filter_sites
    cont_file,       \* the uploaded contaminant CSV, or NoContFile
    df,              \* typed measurement table
    contaminant,     \* selected characteristic
    value_range,     \* <<lo, hi>>
    date_range,      \* <<start, end>> as handed to filter_data
    characteristics, \* list handed to plot_dual_characteristics
    filtered_df,     \* result of filter_data
    shown,           \* what the run has put on the page, in order
    lines,           \* the lines of the trend chart, by (site, characteristic)
    error            \* the exception that ended the run, or NoError

vars == <<pc, site_file, sites, cont_file, df, contaminant, value_range,
          date_range, characteristics, filtered_df, shown, lines, error>>

----------------------------------------------------------------------------
(* Bounds and value domains *)

MaxRows == 2
MaxChars == 3        \* longest list of characteristics tried
MaxSiteRows == 1     \* rows of the site file in a run of app()
MaxContRows == 2     \* rows of the contaminant file in a run of app()

NaN == -1            \* float NaN / NaT: the missing number or timestamp
NA == "<NA>"         \* missing text cell (NaN in an object column)
NoSiteFile == [uploaded |-> FALSE, rows |-> <<>>]
NoContFile == [uploaded |-> FALSE, cols |-> {}, rows |-> <<>>]
NoError == "NoError"
NoSitesError == "ValueError: No valid monitoring sites to plot."
CharCountError == "ValueError: Please specify one or two characteristics."
KeyError == "KeyError"
SliderError == "StreamlitAPIException"
NaNLocationError == "ValueError: Location values cannot contain NaNs."
None == <<>>

Names == {"Lead", "Zinc"}
Sites == {"A", "B"}
Values == {1, 2}
Dates == {1, 2}
DateText == {"2020-01-01", "2020-06-01"}

\* A date argument is a Timestamp or a date string; a date range is a pair
\* of one kind.
DateRanges == ([ts : Dates] \X [ts : Dates]) \cup ([text : DateText] \X [text : DateText])

----------------------------------------------------------------------------
(* pandas primitives *)

\* Comparisons of float/datetime columns: any comparison with NaN/NaT is False.
Ge(a, b) == a # NaN /\ b # NaN /\ a >= b
Le(a, b) == a # NaN /\ b # NaN /\ a <= b
\* Series == scalar on an object column: NaN equals nothing, itself included.
Eq(a, b) == a # NA /\ b # NA /\ a = b

\* pd.to_datetime of a scalar: a Timestamp is returned as is, a string is parsed.
parse_date(text) ==
    CASE text = "2020-01-01" -> 1
      [] text = "2020-06-01" -> 2
      [] OTHER -> NaN

to_datetime(d) == IF "ts" \in DOMAIN d THEN d.ts ELSE parse_date(d.text)

\* pd.to_numeric(errors='coerce') of one text cell: a numeral becomes its
\* number ("1" and "1.0" the same one), anything else becomes NaN.
to_numeric(c) ==
    CASE c = "1" -> 1
      [] c = "1.0" -> 1
      [] c = "2" -> 2
      [] OTHER -> NaN

\* pd.to_datetime(errors='coerce') of one cell of a datetime column: a
\* Timestamp stays, anything else is NaT.
to_datetime_coerce(c) == IF c \in Dates THEN c ELSE NaN

\* One thing put on the page: what it is and how many markers or lines it has.
Item(what, n) == [what |-> what, n |-> n]

----------------------------------------------------------------------------
(* filter_data *)

\* Mutant: the lower value bound is tested with > instead of >=.
filter_data_open(d, c, vr, dr) ==
    LET byName == SelectSeq(d, LAMBDA r : Eq(r.CharacteristicName, c))
        byValue == SelectSeq(byName, LAMBDA r : r.ResultMeasureValue > vr[1]
                                             /\ Le(r.ResultMeasureValue, vr[2]))
        dts == <<to_datetime(dr[1]), to_datetime(dr[2])>>
    IN  SelectSeq(byValue, LAMBDA r : Ge(r.ActivityStartDate, dts[1])
                                   /\ Le(r.ActivityStartDate, dts[2]))

filter_data(d, c, vr, dr) ==
    LET byName == SelectSeq(d, LAMBDA r : Eq(r.CharacteristicName, c))
        byValue == SelectSeq(byName, LAMBDA r : Ge(r.ResultMeasureValue, vr[1])
                                             /\ Le(r.ResultMeasureValue, vr[2]))
        dts == <<to_datetime(dr[1]), to_datetime(dr[2])>>
    IN  SelectSeq(byValue, LAMBDA r : Ge(r.ActivityStartDate, dts[1])
                                   /\ Le(r.ActivityStartDate, dts[2]))

\* Typed measurement rows as load_contaminant_data leaves them.
MeasRows ==
    [CharacteristicName : Names \cup {NA},
     ResultMeasureValue : Values \cup {NaN},
     ActivityStartDate : Dates \cup {NaN}]

\* RangeIndex: row i carries index label i.
WithIndex(rows) ==
    [i \in 1..Len(rows) |-> [f \in DOMAIN rows[i] \cup {"idx"} |->
                                IF f = "idx" THEN i ELSE rows[i][f]]]

TablesOf(R, n) == UNION {[1..k -> R] : k \in 0..n}

InitFilter ==
    /\ pc = "filter_data"
    /\ site_file = NoSiteFile /\ sites = None /\ cont_file = NoContFile
    /\ df \in {WithIndex(t) : t \in TablesOf(MeasRows, MaxRows)}
    /\ contaminant = NA /\ value_range = None /\ date_range = None
    /\ characteristics = None /\ filtered_df = None /\ shown = None
    /\ lines = None /\ error = NoError

FilterData ==
    /\ pc = "filter_data"
    /\ \E c \in Names, lo \in Values \cup {NaN}, hi \in Values \cup {NaN},
          dr \in DateRanges :
        /\ contaminant' = c
        /\ value_range' = <<lo, hi>>
        /\ date_range' = dr
        /\ filtered_df' = filter_data(df, c, <<lo, hi>>, dr)
    /\ pc' = "filtered"
    /\ UNCHANGED <<site_file, sites, cont_file, df, characteristics, shown,
                   lines, error>>

SpecFilter == InitFilter /\ [][FilterData]_vars

\* The closed interval test of the claim: a missing value is in no interval.
InClosed(x, lo, hi) == x # NaN /\ lo # NaN /\ hi # NaN /\ lo <= x /\ x <= hi

Kept(r) ==
    /\ r.CharacteristicName = contaminant
    /\ InClosed(r.ResultMeasureValue, value_range[1], value_range[2])
    /\ InClosed(r.ActivityStartDate, to_datetime(date_range[1]),
                to_datetime(date_range[2]))

\* C1: filter_data returns exactly the input rows, unaltered and in input
\* order, whose characteristic equals the selection and whose value and date
\* lie in the closed intervals; no output row has a missing value or date.
C1_FilterExact ==
    pc = "filtered" =>
        /\ \A i \in 1..Len(filtered_df) :
              /\ filtered_df[i].idx \in 1..Len(df)
              /\ df[filtered_df[i].idx] = filtered_df[i]
              /\ filtered_df[i].ResultMeasureValue # NaN
              /\ filtered_df[i].ActivityStartDate # NaN
              /\ \A j \in 1..Len(filtered_df) :
                    i < j => filtered_df[i].idx < filtered_df[j].idx
        /\ \A k \in 1..Len(df) :
              Kept(df[k]) <=> \E i \in 1..Len(filtered_df) : filtered_df[i] = df[k]

\* A two-row table of the selected characteristic: one row passes, the other
\* has a missing value and is left out although the interval is the widest.
C1_Witness ==
    /\ pc = "filtered" /\ Len(df) = 2 /\ Len(filtered_df) = 1
    /\ \A k \in 1..2 : df[k].CharacteristicName = contaminant
    /\ \E k \in 1..2 : df[k].ResultMeasureValue = NaN
    /\ value_range = <<1, 2>>
    /\ "text" \in DOMAIN date_range[1]

----------------------------------------------------------------------------
(* load_and_filter_sites, plot_sites_on_map *)

\* Text cells of a site file read with dtype=str; an empty cell is read as NA.
NameCells == {"S1", "S2", NA}
LatCells == {"1", "1.0", "2", "x", NA}
LonCells == {"2", "x", NA}

SiteFileRows ==
    [MonitoringLocationName : NameCells,
     LatitudeMeasure : LatCells,
     LongitudeMeasure : LonCells]

coerce_coordinates(rows) ==
    [i \in 1..Len(rows) |->
        [rows[i] EXCEPT !.LatitudeMeasure = to_numeric(@),
                        !.LongitudeMeasure = to_numeric(@)]]

SiteKeyCols == {"MonitoringLocationName", "LatitudeMeasure", "LongitudeMeasure"}

\* DataFrame.drop_duplicates(subset=...): the first row of each key is kept,
\* in order; missing values count as equal to each other.
drop_duplicates(rows, subset) ==
    LET Key(r) == [c \in subset |-> r[c]]
        F[i \in 0..Len(rows)] ==
            IF i = 0 THEN <<>>
            ELSE IF \E j \in 1..(i - 1) : Key(rows[j]) = Key(rows[i])
                 THEN F[i - 1]
                 ELSE Append(F[i - 1], rows[i])
    IN  F[Len(rows)]

dedup_sites(rows) == drop_duplicates(rows, SiteKeyCols)

dropna_coordinates(rows) ==
    SelectSeq(rows, LAMBDA r : r.LatitudeMeasure # NaN /\ r.LongitudeMeasure # NaN)

\* Mutant: rows are dropped for a missing latitude only.
load_and_filter_sites_lat_only(file) ==
    SelectSeq(dedup_sites(coerce_coordinates(file)),
           LAMBDA r : r.LatitudeMeasure # NaN)

\* Mutant: duplicates are dropped on the text cells, before the coercion.
load_and_filter_sites_dedup_text(file) ==
    dropna_coordinates(coerce_coordinates(dedup_sites(file)))

load_and_filter_sites(file) ==
    dropna_coordinates(dedup_sites(coerce_coordinates(file)))

InitSites ==
    /\ pc = "load_and_filter_sites"
    /\ site_file \in {[uploaded |-> TRUE, rows |-> WithIndex(t)] :
                          t \in TablesOf(SiteFileRows, MaxRows)}
    /\ sites = None /\ cont_file = NoContFile /\ df = None
    /\ contaminant = NA /\ value_range = None /\ date_range = None
    /\ characteristics = None /\ filtered_df = None /\ shown = None
    /\ lines = None /\ error = NoError

LoadAndFilterSites ==
    /\ pc = "load_and_filter_sites"
    /\ sites' = load_and_filter_sites(site_file.rows)
    /\ pc' = "sites_loaded"
    /\ UNCHANGED <<site_file, cont_file, df, contaminant, value_range,
                   date_range, characteristics, filtered_df, shown, lines,
                   error>>

SpecSites == InitSites /\ [][LoadAndFilterSites]_vars

\* Text cells that are numerals.
Numerals == {"1", "1.0", "2"}

\* C2: every record returned by load_and_filter_sites has a present latitude
\* and longitude; the rows of the file whose latitude or longitude cell is
\* empty or unparseable are coerced without an error and are not returned.
C2_ValidCoordinates ==
    pc = "sites_loaded" =>
        /\ error = NoError
        /\ \A i \in 1..Len(sites) :
              /\ sites[i].LatitudeMeasure \in Nat
              /\ sites[i].LongitudeMeasure \in Nat
              /\ sites[i].idx \in 1..Len(site_file.rows)
              /\ site_file.rows[sites[i].idx].LatitudeMeasure \in Numerals
              /\ site_file.rows[sites[i].idx].LongitudeMeasure \in Numerals
        /\ \A k \in 1..Len(site_file.rows) :
              (site_file.rows[k].LatitudeMeasure \notin Numerals
                 \/ site_file.rows[k].LongitudeMeasure \notin Numerals)
              => \A i \in 1..Len(sites) : sites[i].idx # k

\* A file of a valid row and a row whose latitude parses but whose longitude
\* is empty or unparseable: only the valid row is returned.
C2_Witness ==
    /\ pc = "sites_loaded" /\ Len(site_file.rows) = 2 /\ Len(sites) = 1
    /\ \E k \in 1..2 : /\ site_file.rows[k].LatitudeMeasure = "1.0"
                        /\ site_file.rows[k].LongitudeMeasure \in {"x", NA}

site_key(r) == <<r.MonitoringLocationName, r.LatitudeMeasure, r.LongitudeMeasure>>
KeysOf(rows) == {site_key(rows[i]) : i \in 1..Len(rows)}

\* C3: deduplication is idempotent on the coerced table and on the loader's
\* output; no two records of the output share (name, latitude, longitude),
\* and every key of the file with both coordinates present has exactly one
\* record.
C3_DedupIdempotent ==
    pc = "sites_loaded" =>
        LET coerced == coerce_coordinates(site_file.rows) IN
        /\ dedup_sites(dedup_sites(coerced)) = dedup_sites(coerced)
        /\ dedup_sites(sites) = sites
        /\ \A i, j \in 1..Len(sites) :
              site_key(sites[i]) = site_key(sites[j]) => i = j
        /\ KeysOf(sites) = {k \in KeysOf(coerced) : k[2] # NaN /\ k[3] # NaN}

\* Two rows "1" and "1.0" of the same site and longitude are one key after
\* the coercion and collapse to the first of them.
C3_Witness ==
    /\ pc = "sites_loaded" /\ Len(site_file.rows) = 2 /\ Len(sites) = 1
    /\ site_file.rows[1].LatitudeMeasure = "1" /\ site_file.rows[2].LatitudeMeasure = "1.0"
    /\ site_file.rows[1].MonitoringLocationName = site_file.rows[2].MonitoringLocationName
    /\ sites[1].idx = 1

----------------------------------------------------------------------------
(* plot_dual_characteristics *)

TrendRows ==
    [MonitoringLocationIdentifier : Sites \cup {NA},
     CharacteristicName : Names \cup {NA},
     ResultMeasureValue : {1, NaN},
     ActivityStartDate : Dates \cup {NaN}]

\* The lists of characteristics tried: every list of up to two names, and
\* one list of each greater length up to MaxChars.
CharLists ==
    UNION {[1..k -> Names] : k \in 0..2}
        \cup {[i \in 1..k |-> IF i = 2 THEN "Zinc" ELSE "Lead"] : k \in 3..MaxChars}

\* Mutant: the upper limit of the precondition is off by one.
valid_characteristics_upto3(chs) == 1 <= Len(chs) /\ Len(chs) <= 3

valid_characteristics(chs) == 1 <= Len(chs) /\ Len(chs) <= 2

Range(q) == {q[i] : i \in 1..Len(q)}

\* Mutant: rows with a missing value are not dropped.
trend_rows_keep_missing_value(d, chs) ==
    LET dated == [i \in 1..Len(d) |->
                    [d[i] EXCEPT !.ActivityStartDate = to_datetime_coerce(@)]]
        present == SelectSeq(dated, LAMBDA r :
                       /\ r.ActivityStartDate # NaN
                       /\ r.MonitoringLocationIdentifier # NA
                       /\ r.CharacteristicName # NA)
    IN  SelectSeq(present, LAMBDA r : r.CharacteristicName \in Range(chs))

\* Lines 84-88: the date conversion, dropna and isin.
trend_rows(d, chs) ==
    LET dated == [i \in 1..Len(d) |->
                    [d[i] EXCEPT !.ActivityStartDate = to_datetime_coerce(@)]]
        present == SelectSeq(dated, LAMBDA r :
                       /\ r.ActivityStartDate # NaN
                       /\ r.ResultMeasureValue # NaN
                       /\ r.MonitoringLocationIdentifier # NA
                       /\ r.CharacteristicName # NA)
    IN  SelectSeq(present, LAMBDA r : r.CharacteristicName \in Range(chs))

group_key(r) == <<r.MonitoringLocationIdentifier, r.CharacteristicName>>

\* groupby([site_col, char_col]): the keys, and the rows of one key in order.
group_keys(rows) == {group_key(rows[i]) : i \in 1..Len(rows)}
group_of(rows, k) == SelectSeq(rows, LAMBDA r : group_key(r) = k)

\* sort_values(date_col) with the default (unstable) sort: any arrangement
\* of the rows with the dates in nondecreasing order.
sort_values_by_date(g) ==
    {q \in {[i \in 1..Len(g) |-> g[pi[i]]] : pi \in Permutations(1..Len(g))} :
        \A i \in 1..(Len(q) - 1) :
            q[i].ActivityStartDate <= q[i + 1].ActivityStartDate}

InitTrend ==
    /\ pc = "plot_dual_characteristics"
    /\ site_file = NoSiteFile /\ sites = None /\ cont_file = NoContFile /\ df = None
    /\ filtered_df \in {WithIndex(t) : t \in TablesOf(TrendRows, MaxRows)}
    /\ contaminant = NA /\ value_range = None /\ date_range = None
    /\ characteristics = None /\ shown = None
    /\ lines = None /\ error = NoError

\* The body of plot_dual_characteristics for the frame d and the list chs,
\* called when the page holds `page`.
DrawTrend(d, chs, page) ==
    IF ~valid_characteristics(chs)
    THEN /\ error' = CharCountError
         /\ shown' = page
         /\ UNCHANGED lines
    ELSE LET rows == trend_rows(d, chs)
             keys == group_keys(rows)
         IN  /\ lines' \in
                   {f \in [keys -> UNION {sort_values_by_date(group_of(rows, k)) :
                                           k \in keys}] :
                       \A k \in keys : f[k] \in sort_values_by_date(group_of(rows, k))}
             /\ shown' = Append(page, Item("trend_chart", Cardinality(keys)))
             /\ UNCHANGED error

PlotDualCharacteristics ==
    /\ pc = "plot_dual_characteristics"
    /\ \E chs \in CharLists :
        /\ characteristics' = chs
        /\ DrawTrend(filtered_df, chs, shown)
    /\ pc' = "plotted"
    /\ UNCHANGED <<site_file, sites, cont_file, df, contaminant, value_range,
                   date_range, filtered_df>>

SpecTrend == InitTrend /\ [][PlotDualCharacteristics]_vars

\* The rows the claim counts: nothing missing, characteristic selected.
Complete(r) ==
    /\ r.ActivityStartDate # NaN /\ r.ResultMeasureValue # NaN
    /\ r.MonitoringLocationIdentifier # NA /\ r.CharacteristicName # NA

\* C7: with 1 or 2 characteristics the chart has one line per distinct
\* (site, characteristic) pair among the complete rows of the selected
\* characteristics; a line holds exactly the rows of its pair, dates
\* nondecreasing.
C7_OneLinePerPair ==
    (pc = "plotted" /\ Len(characteristics) \in {1, 2}) =>
        LET counted == {i \in 1..Len(filtered_df) :
                          /\ Complete(filtered_df[i])
                          /\ \E n \in 1..Len(characteristics) :
                                characteristics[n] = filtered_df[i].CharacteristicName}
            pairs == {group_key(filtered_df[i]) : i \in counted}
        IN  /\ DOMAIN lines = pairs
            /\ Cardinality(DOMAIN lines) = Cardinality(pairs)
            /\ \A k \in pairs :
                  /\ Range(lines[k]) =
                        {filtered_df[i] : i \in {c \in counted :
                                                   group_key(filtered_df[c]) = k}}
                  /\ Len(lines[k]) = Cardinality(Range(lines[k]))
                  /\ \A i, j \in 1..Len(lines[k]) :
                        i < j => lines[k][i].ActivityStartDate
                                   <= lines[k][j].ActivityStartDate

\* Two rows of one pair given in reverse date order are drawn as one line in
\* date order.
C7_Witness ==
    /\ pc = "plotted" /\ Len(characteristics) = 2 /\ Len(filtered_df) = 2
    /\ filtered_df[1].ActivityStartDate = 2 /\ filtered_df[2].ActivityStartDate = 1
    /\ Cardinality(DOMAIN lines) = 1
    /\ \A k \in DOMAIN lines : Len(lines[k]) = 2 /\ lines[k][1].idx = 2

\* C8: plot_dual_characteristics raises exactly when the list has neither 1
\* nor 2 characteristics, and then nothing has been drawn.
C8_PreconditionError ==
    pc = "plotted" =>
        /\ error = CharCountError <=> Len(characteristics) \notin {1, 2}
        /\ error # CharCountError => error = NoError
        /\ error = CharCountError => lines = None /\ shown = None

C8_Witness ==
    /\ pc = "plotted" /\ Len(characteristics) = 3 /\ error = CharCountError
    /\ Len(filtered_df) > 0

----------------------------------------------------------------------------
(* load_contaminant_data, plot_filtered_map, app *)

RequiredCols == {"CharacteristicName", "ResultMeasureValue", "ActivityStartDate"}
CoordCols == {"LatitudeMeasure", "LongitudeMeasure"}
StationCols == {"MonitoringLocationIdentifier"} \cup CoordCols
AllCols == RequiredCols \cup StationCols

\* The column sets of the uploaded contaminant files: complete, without the
\* coordinates, or without one of the required columns.
ColumnSets ==
    {AllCols, AllCols \ CoordCols} \cup {AllCols \ {c} : c \in RequiredCols}

\* Text cells of a contaminant file.
ContFileRows ==
    [MonitoringLocationIdentifier : {"A"},
     CharacteristicName : Names,
     ResultMeasureValue : {"1", "2", "x"},
     ActivityStartDate : {"2020-01-01", "2020-06-01"},
     LatitudeMeasure : {"1"},
     LongitudeMeasure : {"2"}]

RowsOver(cols) == {[c \in cols |-> r[c]] : r \in ContFileRows}

ContFiles ==
    UNION {{[uploaded |-> TRUE, cols |-> C, rows |-> WithIndex(t)] :
               t \in TablesOf(RowsOver(C), MaxContRows)} : C \in ColumnSets}

AppSiteRows ==
    [MonitoringLocationName : {"S1"},
     LatitudeMeasure : {"1", "x"},
     LongitudeMeasure : {"2"}]

AppSiteFiles ==
    {[uploaded |-> TRUE, rows |-> WithIndex(t)] :
        t \in TablesOf(AppSiteRows, MaxSiteRows)}

\* Mutant: the emptiness check is missing.
plot_sites_on_map_unchecked(s) == [raised |-> NoError, n |-> Len(s)]

\* plot_sites_on_map: raises on an empty frame, else one marker per row.
plot_sites_on_map(s) ==
    IF s = <<>> THEN [raised |-> NoSitesError, n |-> 0]
    ELSE [raised |-> NoError, n |-> Len(s)]

\* load_contaminant_data: the columns whose absence raises KeyError, and the
\* typed rows (read_csv reads numeral columns as numbers; the value and the
\* date column are coerced).
load_contaminant_data_raises(file) ==
    ~({"ResultMeasureValue", "ActivityStartDate"} \subseteq file.cols)

load_contaminant_data(file) ==
    [i \in 1..Len(file.rows) |->
        [c \in DOMAIN file.rows[i] |->
            CASE c = "ResultMeasureValue" -> to_numeric(file.rows[i][c])
              [] c = "ActivityStartDate" -> parse_date(file.rows[i][c])
              [] c \in CoordCols -> to_numeric(file.rows[i][c])
              [] OTHER -> file.rows[i][c]]]

\* Series.min() / Series.max(): missing values are skipped; NaN if none is left.
ColumnValues(rows, c) == {rows[i][c] : i \in 1..Len(rows)} \ {NaN}
col_min(rows, c) ==
    LET v == ColumnValues(rows, c)
    IN  IF v = {} THEN NaN ELSE CHOOSE x \in v : \A y \in v : x <= y
col_max(rows, c) ==
    LET v == ColumnValues(rows, c)
    IN  IF v = {} THEN NaN ELSE CHOOSE x \in v : \A y \in v : x >= y

\* st.selectbox: one of the options, None when there is none.
selectbox(options) == IF options = {} THEN {NA} ELSE options

\* st.slider(label, mn, mx, (mn, mx)): a range within the bounds. With
\* missing or equal bounds the widget either raises or returns its default,
\* depending on the Streamlit release.
slider(mn, mx) ==
    IF mn = NaN \/ mx = NaN \/ mn = mx
    THEN {[raised |-> r, value |-> <<mn, mx>>] : r \in BOOLEAN}
    ELSE {o \in {[raised |-> FALSE, value |-> <<lo, hi>>] :
                     lo \in mn..mx, hi \in mn..mx} : o.value[1] <= o.value[2]}

\* plot_filtered_map: KeyError when a station column is absent; else one
\* marker per distinct station. The map is centred on the mean coordinates,
\* NaN for an empty frame: folium.Map either rejects a NaN location or builds
\* the map, depending on the folium release.
plot_filtered_map(cols, rows) ==
    IF ~(StationCols \subseteq cols) THEN {[raised |-> KeyError, n |-> 0]}
    ELSE LET unique_sites ==
                 drop_duplicates([i \in 1..Len(rows) |->
                                     [c \in StationCols |-> rows[i][c]]],
                                 StationCols)
         IN  IF unique_sites = <<>>
             THEN {[raised |-> NaNLocationError, n |-> 0],
                   [raised |-> NoError, n |-> 0]}
             ELSE {[raised |-> NoError, n |-> Len(unique_sites)]}

InitApp ==
    /\ pc = "site_section"
    /\ site_file \in {NoSiteFile} \cup AppSiteFiles
    /\ cont_file \in {NoContFile} \cup ContFiles
    /\ sites = None /\ df = None
    /\ contaminant = NA /\ value_range = None /\ date_range = None
    /\ characteristics = None /\ filtered_df = None /\ shown = None
    /\ lines = None /\ error = NoError

\* Lines 125-134.
SiteSection ==
    /\ pc = "site_section"
    /\ LET page == <<Item("title", 0)>> IN
       IF ~site_file.uploaded
       THEN /\ shown' = page
            /\ pc' = "contaminant_section"
            /\ UNCHANGED <<sites, error>>
       ELSE LET loaded == load_and_filter_sites(site_file.rows)
                m == plot_sites_on_map(loaded)
                page2 == Append(page, Item("subheader", 0))
            IN  /\ sites' = loaded
                /\ IF m.raised # NoError
                   THEN /\ error' = m.raised
                        /\ shown' = page2
                        /\ pc' = "halted"
                   ELSE /\ shown' = Append(page2, Item("site_map", m.n))
                        /\ pc' = "contaminant_section"
                        /\ UNCHANGED error
    /\ UNCHANGED <<site_file, cont_file, df, contaminant, value_range,
                   date_range, characteristics, filtered_df, lines>>

\* Lines 137-139.
ContaminantSection ==
    /\ pc = "contaminant_section"
    /\ IF ~cont_file.uploaded
       THEN pc' = "done" /\ UNCHANGED <<df, error>>
       ELSE IF load_contaminant_data_raises(cont_file)
            THEN error' = KeyError /\ pc' = "halted" /\ UNCHANGED df
            ELSE /\ df' = load_contaminant_data(cont_file)
                 /\ pc' = "widgets"
                 /\ UNCHANGED error
    /\ UNCHANGED <<site_file, sites, cont_file, contaminant, value_range,
                   date_range, characteristics, filtered_df, shown, lines>>

\* Lines 142-153.
Widgets ==
    /\ pc = "widgets"
    /\ IF "CharacteristicName" \notin cont_file.cols
       THEN /\ error' = KeyError /\ pc' = "halted"
            /\ UNCHANGED <<contaminant, value_range, date_range>>
       ELSE \E c \in selectbox({df[i].CharacteristicName : i \in 1..Len(df)}),
               v \in slider(col_min(df, "ResultMeasureValue"),
                            col_max(df, "ResultMeasureValue")),
               d \in slider(col_min(df, "ActivityStartDate"),
                            col_max(df, "ActivityStartDate")) :
              /\ contaminant' = c
              /\ IF v.raised
                 THEN /\ error' = SliderError /\ pc' = "halted"
                      /\ UNCHANGED <<value_range, date_range>>
                 ELSE /\ value_range' = v.value
                      /\ IF d.raised
                         THEN /\ error' = SliderError /\ pc' = "halted"
                              /\ UNCHANGED date_range
                         ELSE /\ date_range' = <<[ts |-> d.value[1]],
                                                 [ts |-> d.value[2]]>>
                              /\ pc' = "filter"
                              /\ UNCHANGED error
    /\ UNCHANGED <<site_file, sites, cont_file, df, characteristics,
                   filtered_df, shown, lines>>

\* Line 156.
Filter ==
    /\ pc = "filter"
    /\ filtered_df' = filter_data(df, contaminant, value_range, date_range)
    /\ pc' = "filtered_map"
    /\ UNCHANGED <<site_file, sites, cont_file, df, contaminant, value_range,
                   date_range, characteristics, shown, lines, error>>

\* Lines 159-161.
FilteredMap ==
    /\ pc = "filtered_map"
    /\ LET page == Append(shown, Item("subheader", 0)) IN
       \E m \in plot_filtered_map(cont_file.cols, filtered_df) :
          IF m.raised # NoError
          THEN error' = m.raised /\ shown' = page /\ pc' = "halted"
          ELSE /\ shown' = Append(page, Item("filtered_map", m.n))
               /\ pc' = "trend"
               /\ UNCHANGED error
    /\ UNCHANGED <<site_file, sites, cont_file, df, contaminant, value_range,
                   date_range, characteristics, filtered_df, lines>>

\* Lines 164-165.
Trend ==
    /\ pc = "trend"
    /\ characteristics' = <<contaminant>>
    /\ DrawTrend(filtered_df, <<contaminant>>, Append(shown, Item("subheader", 0)))
    /\ pc' = IF valid_characteristics(<<contaminant>>) THEN "done" ELSE "halted"
    /\ UNCHANGED <<site_file, sites, cont_file, df, contaminant, value_range,
                   date_range, filtered_df>>

NextApp ==
    \/ SiteSection \/ ContaminantSection \/ Widgets \/ Filter
    \/ FilteredMap \/ Trend

SpecApp == InitApp /\ [][NextApp]_vars

Terminal == pc \in {"done", "halted"}
Shown(what) == \E i \in 1..Len(shown) : shown[i].what = what

\* The widgets returned their values, so filter_data has run by the end.
FilterRan == date_range # None

\* Both sliders had a proper range to choose from, so the run does not rest
\* on what the widget does with missing or equal bounds.
ProperRanges ==
    /\ FilterRan
    /\ col_min(df, "ResultMeasureValue") < col_max(df, "ResultMeasureValue")
    /\ col_min(df, "ActivityStartDate") < col_max(df, "ActivityStartDate")

NoValidSiteRow ==
    \A k \in 1..Len(site_file.rows) :
        \/ site_file.rows[k].LatitudeMeasure \notin Numerals
        \/ site_file.rows[k].LongitudeMeasure \notin Numerals

\* C4: once the site section of a run with an uploaded site file is over, the
\* run has raised the "no valid sites" error, has halted and shows no site
\* map exactly when the file has no row with a valid latitude and longitude;
\* otherwise that error is not raised and the site map is shown.
C4_EmptySitesError ==
    (pc # "site_section" /\ site_file.uploaded) =>
        /\ NoValidSiteRow <=> sites = <<>>
        /\ NoValidSiteRow =>
              error = NoSitesError /\ pc = "halted" /\ ~Shown("site_map")
        /\ ~NoValidSiteRow => error # NoSitesError /\ Shown("site_map")

\* A site file whose only row has an unparseable latitude.
C4_Witness ==
    /\ pc = "halted" /\ site_file.uploaded /\ Len(site_file.rows) = 1
    /\ site_file.rows[1].LatitudeMeasure = "x"
    /\ error = NoSitesError /\ ~Shown("site_map")

\* C5: a run whose filtered measurements have no latitude/longitude columns
\* ends without an error, with a warning in place of the filtered map and
\* with the trend chart (stated for the runs whose sliders had a proper
\* range).
C5_MissingCoordinatesDegrade ==
    (Terminal /\ ProperRanges /\ ~(CoordCols \subseteq cont_file.cols)) =>
        /\ error = NoError
        /\ Shown("warning") /\ ~Shown("filtered_map")
        /\ Shown("trend_chart")

\* C6: a run that reaches the contaminant section with a file lacking a
\* required column ends without an uncaught error: a message is shown and
\* neither the filtered map nor the trend chart is.
C6_MissingColumnMessage ==
    (Terminal /\ cont_file.uploaded /\ error # NoSitesError
       /\ ~(RequiredCols \subseteq cont_file.cols)) =>
        /\ error = NoError
        /\ Shown("message")
        /\ ~Shown("filtered_map") /\ ~Shown("trend_chart")

C10_PipelinesIndependent ==
    (Terminal /\ cont_file.uploaded) => error # NoSitesError

====
